---- MODULE Spec2Model ----
(***************************************************************************)
(* RPC-over-HTTP secure context binding (libfreerdp/core/gateway/rpc_bind.c)*)
(* The three operations rpc_send_bind_pdu, rpc_recv_bind_ack_pdu and       *)
(* rpc_send_rpc_auth_3_pdu, driven by the handshake state machine of the   *)
(* gateway client.                                                         *)
(***************************************************************************)
EXTENDS Integers, Sequences, FiniteSets, TLC

VARIABLES
    settings,        \* rdpSettings: Gateway* and session credentials, GatewayUseSameCredentials
    hasAuthCb,       \* instance->GatewayAuthenticate is registered (non-NULL)
    rpc,             \* rdpRpc: max_xmit_frag, max_recv_frag, ntlm
    ClientCallList,  \* rpc->client->ClientCallList, in insertion order
    inChannel,       \* every PDU handed to rpc_in_channel_send_pdu, in order
    log,             \* history: the order of registry and channel events
    phase,           \* position of the handshake driver
    ret,             \* return value of the last operation
    held,            \* PDU allocations of the last operation not freed at its return
    prompts,         \* GatewayAuthenticate invocations of the last rpc_send_bind_pdu
    ub,              \* memory errors of the last operation (out-of-bounds accesses)
    lastError,       \* freerdp_set_last_error() value of the context
    lastAck,         \* the BIND_ACK buffer given to the last rpc_recv_bind_ack_pdu
    reads,           \* PDUs read from the out channel by the driver
    op               \* history: the last operation, what its collaborators answered,
                     \* and the state it started from

vars == <<settings, hasAuthCb, rpc, ClientCallList, inChannel, log, phase, ret,
          held, prompts, ub, lastError, lastAck, reads, op>>

----------------------------------------------------------------------------
(* Values *)

NULL == "<NULL>"

U16 == 2^16

\* (UINT16) x
ToU16(x) == x % U16

BIND_PREFIX == 116
AUTH3_PREFIX == 20
AUTH_TRAILER == 8
BIND_CALL_ID == 2
AUTH3_CALL_ID == 2
BIND_N_CONTEXT_ELEM == 2
BIND_ACK_FIXED == 20
COMMON_HDR_AUTH_END == 12

PTYPE_BIND == "PTYPE_BIND"
PTYPE_RPC_AUTH_3 == "PTYPE_RPC_AUTH_3"

BindPfcFlags == {"PFC_FIRST_FRAG", "PFC_LAST_FRAG", "PFC_SUPPORT_HEADER_SIGN", "PFC_CONC_MPX"}
Auth3PfcFlags == {"PFC_FIRST_FRAG", "PFC_LAST_FRAG", "PFC_CONC_MPX"}

\* cbBuffer values the oracle can leave in outputBuffer[0] for the BIND:
\* 65411 is the longest token whose BIND still fits a 16-bit frag_length,
\* 65422 wraps frag_length to 10 and 65535 to 123, and 65538 does not fit the
\* 16-bit auth_length.
BindTokenLens == {0, 2, 3, 65411, 65422, 65535, 65538}

\* ... and for the RPC_AUTH_3, where 65507 is the longest that fits.
Auth3TokenLens == {2, 65507, 65535}

\* rpc->max_xmit_frag and rpc->max_recv_frag at session creation.
InitFrags == {4088}

Event(ev, by, id) == [ev |-> ev, op |-> by, call_id |-> id]

----------------------------------------------------------------------------
(* Collaborators: the oracle (ntlm), the call registry, the in channel *)

\* ntlm_new(): a fresh context, nothing initialized, no token.
ntlm_new == [state |-> "new", cbOut |-> 0, cbIn |-> 0, fed |-> 0, status |-> "None"]

\* ntlm_authenticate() leaves a token of cb bytes in outputBuffer[0] and a status.
ntlm_authenticate(ntlm, cb, status) ==
    [ntlm EXCEPT !.state = "authenticated", !.cbOut = cb, !.status = status]

\* A NULL RpcClientCall pointer.
NullCall == [isNull |-> TRUE, CallId |-> 0, OpNum |-> 0]

\* rpc_client_call_new(CallId, OpNum): the call object, or NULL when out of memory.
rpc_client_call_new(CallId, OpNum, fails) ==
    IF fails THEN NullCall ELSE [isNull |-> FALSE, CallId |-> CallId, OpNum |-> OpNum]

\* ArrayList_Add(list, obj): appends obj and returns the new count, or returns -1.
ArrayList_Add(list, obj, fails) ==
    IF fails THEN [list |-> list, index |-> -1]
    ELSE [list |-> Append(list, obj), index |-> Len(list) + 1]

\* rpc_in_channel_send_pdu(inChannel, buffer, length): bytes accepted, or <= 0.
ChannelStatus(kind, length) ==
    CASE kind = "error" -> -1
      [] kind = "zero"  -> 0
      [] kind = "short" -> IF length > 1 THEN length - 1 ELSE 0
      [] OTHER          -> length

SendKinds == {"error", "zero", "short", "full"}

\* rpc_offset_align(&offset, alignment): the pad that aligns offset.
rpc_offset_align(offset, alignment) == (alignment - (offset % alignment)) % alignment

\* rpc_offset_pad(&offset, pad): the offset after the pad.
rpc_offset_pad(offset, pad) == offset + pad

----------------------------------------------------------------------------
(* Encoding shared by rpc_send_bind_pdu and rpc_send_rpc_auth_3_pdu *)

\* auth_length = (UINT16) rpc->ntlm->outputBuffer[0].cbBuffer
AuthLength(cbBuffer) == ToU16(cbBuffer)

\* offset = prefix; pad = rpc_offset_align(&offset, 4); offset += (8 + auth_length)
EndOffset(prefix, auth_length) ==
    rpc_offset_pad(prefix, rpc_offset_align(prefix, 4)) + (AUTH_TRAILER + auth_length)

\* frag_length = offset, stored in the header's UINT16
FragLength(offset) == ToU16(offset)

\* The CopyMemory calls write buffer[0 .. end-1] into malloc(frag_length) bytes.
WritesPastBuffer(end, frag_length) == end > frag_length

\* Lines 227-243 and 258: the frame handed to the channel is the first
\* frag_length bytes of the serialized PDU, so it holds bytes 0 .. end-1 of the
\* PDU only when it is at least end bytes long.
FrameCarries(pdu, end) == pdu.length >= end

\* return (status > 0) ? 1 : -1
SendResult(status) == IF status > 0 THEN 1 ELSE -1

\* The two presentation contexts of lines 193-218.
BindContexts ==
    << [p_cont_id |-> 0, n_transfer_syn |-> 1, abstract_syntax |-> "TSGU",
        transfer_syntaxes |-> <<"NDR">>],
       [p_cont_id |-> 1, n_transfer_syn |-> 1, abstract_syntax |-> "TSGU",
        transfer_syntaxes |-> <<"BTFN">>] >>

\* The serialized PDU as the channel receives it.
Pdu(ptype, flags, call_id, xmit, recv, n_ctx, ctxs, prefix, auth_length) ==
    [ptype |-> ptype, pfc_flags |-> flags, call_id |-> call_id,
     max_xmit_frag |-> xmit, max_recv_frag |-> recv,
     n_context_elem |-> n_ctx, contexts |-> ctxs,
     auth_pad_length |-> rpc_offset_align(prefix, 4),
     auth_type |-> "RPC_C_AUTHN_WINNT", auth_level |-> "RPC_C_AUTHN_LEVEL_PKT_INTEGRITY",
     auth_length |-> auth_length,
     frag_length |-> FragLength(EndOffset(prefix, auth_length)),
     token_bytes |-> auth_length,
     length |-> FragLength(EndOffset(prefix, auth_length))]

----------------------------------------------------------------------------
(* rpc_send_bind_pdu.  s is the program state the operation works on, in the  *)
(* choices its collaborators make during this call.  The stages are listed    *)
(* last first; each one ends the operation or continues with the next.        *)

IsEmptyCred(str) == str = NULL \/ str = ""

\* _strdup(str): a copy, or NULL when out of memory.
_strdup(str, fails) == IF fails THEN NULL ELSE str

BindFaults == {"none", "ntlm_new", "client_init", "make_spn", "bind_pdu", "p_cont_elem",
               "ts0", "ts1", "buffer", "call_new", "list_add"}

BindPduAllocs == {"bind_pdu", "p_cont_elem", "transfer_syntaxes0", "transfer_syntaxes1"}

\* The call is taken out of the registry again when the channel refuses the frame.
BindSend_RollsBack(s, pdu, in) ==
    LET clientCall == rpc_client_call_new(pdu.call_id, 0, in.fault = "call_new")
        add == ArrayList_Add(s.calls, clientCall, in.fault = "list_add")
        status == ChannelStatus(in.send, pdu.length)
    IN  IF clientCall.isNull
        THEN [s EXCEPT !.ret = -1, !.fault = "call_new", !.held = BindPduAllocs]
        ELSE IF add.index < 0
        THEN [s EXCEPT !.ret = -1, !.fault = "list_add",
                       !.held = BindPduAllocs \cup {"clientCall"}]
        ELSE [s EXCEPT !.calls = IF status > 0 THEN add.list ELSE s.calls,
                       !.log = s.log \o << Event("add", "bind", clientCall.CallId),
                                           Event("send", "bind", pdu.call_id) >>,
                       !.sent = Append(s.sent, [pdu |-> pdu, status |-> status]),
                       !.held = {},
                       !.ret = SendResult(status)]

\* Lines 244-264: create the call, add it to the registry, send, free, return.
BindSend(s, pdu, in) ==
    LET clientCall == rpc_client_call_new(pdu.call_id, 0, in.fault = "call_new")
        add == ArrayList_Add(s.calls, clientCall, in.fault = "list_add")
        status == ChannelStatus(in.send, pdu.length)
    IN  IF clientCall.isNull
        THEN [s EXCEPT !.ret = -1, !.fault = "call_new", !.held = BindPduAllocs]
        ELSE IF add.index < 0
        THEN [s EXCEPT !.ret = -1, !.fault = "list_add",
                       !.held = BindPduAllocs \cup {"clientCall"}]
        ELSE [s EXCEPT !.calls = add.list,
                       !.log = s.log \o << Event("add", "bind", clientCall.CallId),
                                           Event("send", "bind", pdu.call_id) >>,
                       !.sent = Append(s.sent, [pdu |-> pdu, status |-> status]),
                       !.held = {},
                       !.ret = SendResult(status)]

\* Lines 170-243: allocate the PDU record and its parts, fill it, serialize it.
BindEncode(s, in) ==
    LET auth_length == AuthLength(s.rpc.ntlm.cbOut)
        pdu == Pdu(PTYPE_BIND, BindPfcFlags, BIND_CALL_ID,
                   s.rpc.max_xmit_frag, s.rpc.max_recv_frag,
                   BIND_N_CONTEXT_ELEM, BindContexts, BIND_PREFIX, auth_length)
        past == WritesPastBuffer(EndOffset(BIND_PREFIX, auth_length), pdu.frag_length)
    IN  CASE in.fault = "bind_pdu" -> [s EXCEPT !.ret = -1, !.fault = in.fault]
          [] in.fault = "p_cont_elem" ->
                [s EXCEPT !.ret = -1, !.fault = in.fault, !.held = {"bind_pdu"}]
          [] in.fault = "ts0" ->
                [s EXCEPT !.ret = -1, !.fault = in.fault,
                          !.held = {"bind_pdu", "p_cont_elem"}]
          [] in.fault = "ts1" ->
                [s EXCEPT !.ret = -1, !.fault = in.fault,
                          !.held = {"bind_pdu", "p_cont_elem", "transfer_syntaxes0"}]
          [] in.fault = "buffer" ->
                [s EXCEPT !.ret = -1, !.fault = in.fault, !.held = BindPduAllocs]
          [] OTHER ->
                IF past /\ in.crash
                THEN [s EXCEPT !.ub = {"write_past_buffer"}, !.crashed = TRUE,
                               !.held = BindPduAllocs \cup {"buffer"}]
                ELSE BindSend([s EXCEPT !.ub = IF past THEN {"write_past_buffer"} ELSE {}],
                              pdu, in)

\* Lines 160-168: ntlm_client_init, ntlm_client_make_spn, ntlm_authenticate.
BindOracle(s, in) ==
    IF in.fault = "client_init"
    THEN [s EXCEPT !.ret = -1, !.fault = in.fault]
    ELSE LET s1 == [s EXCEPT !.rpc.ntlm.state = "initialized",
                             !.log = Append(s.log, Event("client_init", "bind", 0))]
         IN  IF in.fault = "make_spn"
             THEN [s1 EXCEPT !.ret = -1, !.fault = in.fault]
             ELSE LET s2 == [s1 EXCEPT !.rpc.ntlm =
                                 ntlm_authenticate(s1.rpc.ntlm, in.cbOut, in.status)]
                  IN  IF in.status = "Error"
                      THEN [s2 EXCEPT !.ret = -1, !.fault = "ntlm_authenticate"]
                      ELSE BindEncode(s2, in)

\* Lines 148-156: copy the gateway credentials into the session credentials.
BindUseSameCredentials(s, in) ==
    LET set == s.settings
        copied == [set EXCEPT
                     !.Username = _strdup(set.GatewayUsername, "Username" \in in.dupFail),
                     !.Domain = _strdup(set.GatewayDomain, "Domain" \in in.dupFail),
                     !.Password = _strdup(set.GatewayPassword, "Password" \in in.dupFail)]
        s1 == [s EXCEPT !.settings = copied]
    IN  IF copied.Username = NULL \/ copied.Domain = NULL \/ copied.Password # NULL
        THEN [s1 EXCEPT !.ret = -1, !.fault = "credentials"]
        ELSE BindOracle(s1, in)

\* Prompting only when both are missing.
PromptPassword_BothEmpty(set) ==
    IsEmptyCred(set.GatewayPassword) /\ IsEmptyCred(set.GatewayUsername)

\* Lines 129-133: prompt when the gateway user name or password is missing or empty.
PromptPassword(set) ==
    IsEmptyCred(set.GatewayPassword) \/ IsEmptyCred(set.GatewayUsername)

\* The cancelled prompt reported as a successful send.
BindCancelled_ReturnsSuccess(s) ==
    [s EXCEPT !.ret = 1, !.lastError = "FREERDP_ERROR_CONNECT_CANCELLED"]

\* Lines 142-146: the prompt was cancelled.
BindCancelled(s) ==
    [s EXCEPT !.ret = 0, !.lastError = "FREERDP_ERROR_CONNECT_CANCELLED"]

\* The answer of the prompt is not looked at.
BindPrompt_IgnoresCancel(s, in) ==
    IF PromptPassword(s.settings) /\ s.hasAuthCb
    THEN LET s1 == [s EXCEPT !.prompts = s.prompts + 1,
                             !.log = Append(s.log, Event("prompt", "bind", 0))]
             s2 == [s1 EXCEPT !.settings.GatewayUsername = in.cred.u,
                              !.settings.GatewayPassword = in.cred.p,
                              !.settings.GatewayDomain = in.cred.d]
         IN  IF s2.settings.GatewayUseSameCredentials
             THEN BindUseSameCredentials(s2, in)
             ELSE BindOracle(s2, in)
    ELSE BindOracle(s, in)

\* Lines 135-158: the GatewayAuthenticate callback, when one is registered.
BindPrompt(s, in) ==
    IF PromptPassword(s.settings) /\ s.hasAuthCb
    THEN LET s1 == [s EXCEPT !.prompts = s.prompts + 1,
                             !.log = Append(s.log, Event("prompt", "bind", 0))]
         IN  IF ~in.proceed
             THEN BindCancelled(s1)
             ELSE LET s2 == [s1 EXCEPT !.settings.GatewayUsername = in.cred.u,
                                       !.settings.GatewayPassword = in.cred.p,
                                       !.settings.GatewayDomain = in.cred.d]
                  IN  IF s2.settings.GatewayUseSameCredentials
                      THEN BindUseSameCredentials(s2, in)
                      ELSE BindOracle(s2, in)
    ELSE BindOracle(s, in)

\* Lines 108-265.
rpc_send_bind_pdu(s0, in) ==
    LET s == [s0 EXCEPT !.ret = -1, !.fault = "none", !.held = {}, !.prompts = 0,
                        !.ub = {}]
    IN  IF in.fault = "ntlm_new"
        THEN [s EXCEPT !.rpc.ntlm = NULL, !.fault = in.fault]
        ELSE BindPrompt([s EXCEPT !.rpc.ntlm = ntlm_new], in)

----------------------------------------------------------------------------
(* rpc_recv_bind_ack_pdu.  ack is the received buffer: its length and the     *)
(* values found at the header offsets the code reads.                         *)

\* header->bind_ack.max_xmit_frag and max_recv_frag lie in bytes 16..19.
HeaderInBuffer(ack) == ack.length >= BIND_ACK_FIXED

\* header->common.frag_length and auth_length lie in bytes 8..11.
LengthsInBuffer(ack) == ack.length >= COMMON_HDR_AUTH_END

\* Line 304: auth_data = buffer + (frag_length - auth_length)
AuthDataOffset(ack) == ack.frag_length - ack.auth_length

\* Line 305: CopyMemory reads auth_length bytes at auth_data.
AuthReadInBuffer(ack) ==
    ack.auth_length = 0
    \/ (AuthDataOffset(ack) >= 0 /\ AuthDataOffset(ack) + ack.auth_length <= ack.length)

\* The two sizes copied straight across.
AckFragSizes_NotSwapped(rpc0, ack) ==
    [rpc0 EXCEPT !.max_recv_frag = ack.max_recv_frag,
                 !.max_xmit_frag = ack.max_xmit_frag]

\* Lines 296-297.
AckFragSizes(rpc0, ack) ==
    [rpc0 EXCEPT !.max_recv_frag = ack.max_xmit_frag,
                 !.max_xmit_frag = ack.max_recv_frag]

\* Lines 290-308.
rpc_recv_bind_ack_pdu(s0, ack, in) ==
    LET s == [s0 EXCEPT !.ret = -1, !.fault = "none", !.held = {}, !.ub = {}]
        hdrUb == IF HeaderInBuffer(ack) /\ LengthsInBuffer(ack) THEN {} ELSE {"read_past_header"}
        authUb == IF AuthReadInBuffer(ack) THEN {} ELSE {"read_past_buffer"}
        s1 == [s EXCEPT !.rpc = AckFragSizes(s.rpc, ack), !.ub = hdrUb]
        s2 == [s1 EXCEPT !.rpc.ntlm.cbIn = ack.auth_length]
    IN  IF hdrUb # {} /\ in.crash
        THEN [s EXCEPT !.ub = hdrUb, !.crashed = TRUE]
        ELSE IF in.fault = "inputBuffer"
        THEN [s2 EXCEPT !.ret = -1, !.fault = in.fault]
        ELSE IF authUb # {} /\ in.crash
        THEN [s2 EXCEPT !.ub = hdrUb \cup authUb, !.crashed = TRUE]
        ELSE [s2 EXCEPT !.ub = hdrUb \cup authUb,
                        !.rpc.ntlm = [ntlm_authenticate(s2.rpc.ntlm, in.cbOut, in.status)
                                        EXCEPT !.fed = s2.rpc.ntlm.fed + 1],
                        !.log = Append(s.log, Event("ack", "ack", 0)),
                        !.ret = ack.length]

----------------------------------------------------------------------------
(* rpc_send_rpc_auth_3_pdu *)

Auth3Faults == {"none", "auth_3_pdu", "buffer", "call_new", "list_add"}

\* Lines 364-373: create the call, add it, send when the add succeeded, free, return.
Auth3Send(s, pdu, in) ==
    LET clientCall == rpc_client_call_new(pdu.call_id, 0, in.fault = "call_new")
        add == ArrayList_Add(s.calls, clientCall, in.fault = "list_add")
        status == ChannelStatus(in.send, pdu.length)
    IN  IF add.index >= 0
        THEN [s EXCEPT !.calls = add.list,
                       !.fault = IF clientCall.isNull THEN "call_new" ELSE "none",
                       !.log = s.log \o << Event("add", "auth3", clientCall.CallId),
                                           Event("send", "auth3", pdu.call_id) >>,
                       !.sent = Append(s.sent, [pdu |-> pdu, status |-> status]),
                       !.held = {},
                       !.ret = SendResult(status)]
        ELSE [s EXCEPT !.held = IF clientCall.isNull THEN {} ELSE {"clientCall"},
                       !.fault = IF clientCall.isNull THEN "call_new" ELSE "list_add",
                       !.ret = SendResult(-1)]

\* Lines 317-374.
rpc_send_rpc_auth_3_pdu(s0, in) ==
    LET s == [s0 EXCEPT !.ret = -1, !.fault = "none", !.held = {}, !.ub = {}]
        auth_length == AuthLength(s.rpc.ntlm.cbOut)
        pdu == Pdu(PTYPE_RPC_AUTH_3, Auth3PfcFlags, AUTH3_CALL_ID,
                   s.rpc.max_xmit_frag, s.rpc.max_recv_frag,
                   0, << >>, AUTH3_PREFIX, auth_length)
        past == WritesPastBuffer(EndOffset(AUTH3_PREFIX, auth_length), pdu.frag_length)
    IN  CASE in.fault = "auth_3_pdu" -> [s EXCEPT !.fault = in.fault]
          [] in.fault = "buffer" -> [s EXCEPT !.fault = in.fault]
          [] OTHER ->
                IF past /\ in.crash
                THEN [s EXCEPT !.ub = {"write_past_buffer"}, !.crashed = TRUE,
                               !.held = {"auth_3_pdu", "buffer"}]
                ELSE Auth3Send([s EXCEPT !.ub = IF past THEN {"write_past_buffer"} ELSE {}],
                               pdu, in)

----------------------------------------------------------------------------
(* The handshake driver: one operation per phase, advancing on its result *)

State ==
    [settings |-> settings, hasAuthCb |-> hasAuthCb, rpc |-> rpc,
     calls |-> ClientCallList, sent |-> inChannel, log |-> log, ret |-> ret,
     held |-> held, prompts |-> prompts, ub |-> ub, crashed |-> FALSE, fault |-> "none",
     lastError |-> lastError]

Apply(r) ==
    /\ settings' = r.settings
    /\ rpc' = r.rpc
    /\ ClientCallList' = r.calls
    /\ inChannel' = r.sent
    /\ log' = r.log
    /\ ret' = r.ret
    /\ held' = r.held
    /\ prompts' = r.prompts
    /\ ub' = r.ub
    /\ lastError' = r.lastError
    /\ UNCHANGED hasAuthCb

\* Init -> BindSent -> AwaitingBindAck; a cancelled prompt is not an error.
AfterBind(r) ==
    IF r.crashed THEN "Crashed"
    ELSE IF r.ret > 0 THEN "AwaitingBindAck"
    ELSE IF r.ret = 0 THEN "Cancelled"
    ELSE "Failed"

\* AwaitingBindAck -> Auth3Send when the BIND_ACK step reports success.
AfterBindAck(r) ==
    IF r.crashed THEN "Crashed"
    ELSE IF r.ret > 0 THEN "Auth3Send"
    ELSE "Failed"

\* Auth3Send -> Established.
AfterAuth3(r) ==
    IF r.crashed THEN "Crashed"
    ELSE IF r.ret > 0 THEN "Established"
    ELSE "Failed"

PromptCreds == { [u |-> "s", d |-> "s", p |-> "s"] }

DupFails == { {}, {"Username"}, {"Password"}, {"Domain", "Password"} }

OracleStatus == {"Continue", "Complete", "Error"}

\* The first leg of the oracle never completes the exchange.
InitialStatus == {"Continue", "Error"}

BindInputs ==
    [fault : BindFaults, proceed : BOOLEAN, cred : PromptCreds, dupFail : DupFails,
     cbOut : BindTokenLens, status : InitialStatus, send : SendKinds, crash : BOOLEAN]

\* Received buffers: length, and the values at the header offsets.
Ack(l, f, a, x, r) ==
    [length |-> l, frag_length |-> f, auth_length |-> a,
     max_xmit_frag |-> x, max_recv_frag |-> r]

AckPdus ==
    { Ack(60, 60, 2, 4088, 4088),    \* well formed, equal sizes
      Ack(60, 60, 2, 1024, 5840),    \* well formed, different sizes
      Ack(60, 60, 0, 1024, 5840),    \* no token
      Ack(10, 10, 2, 1024, 5840),    \* frag_length shorter than the header
      Ack(60, 100, 2, 1024, 5840),   \* frag_length beyond the buffer
      Ack(60, 60, 40, 1024, 5840),   \* auth_length > frag_length - 24, inside the buffer
      Ack(60, 30, 40, 1024, 5840) }  \* auth_length > frag_length

AckInputs ==
    [fault : {"none", "inputBuffer"}, cbOut : Auth3TokenLens, status : OracleStatus,
     crash : BOOLEAN]

Auth3Inputs == [fault : Auth3Faults, send : SendKinds, crash : BOOLEAN]

Op(name, fault, answer, rpc0, set0) ==
    [name |-> name, fault |-> fault, answer |-> answer,
     max_xmit_frag |-> rpc0.max_xmit_frag, max_recv_frag |-> rpc0.max_recv_frag,
     GatewayUsername |-> set0.GatewayUsername, GatewayPassword |-> set0.GatewayPassword]

Init ==
    /\ settings \in [GatewayUsername : {"", "s"}, GatewayPassword : {NULL, "s"},
                     GatewayDomain : {NULL}, Username : {NULL}, Domain : {NULL},
                     Password : {NULL}, GatewayUseSameCredentials : BOOLEAN]
    /\ hasAuthCb \in BOOLEAN
    /\ rpc \in [max_xmit_frag : InitFrags, max_recv_frag : InitFrags, ntlm : {NULL}]
    /\ ClientCallList = << >>
    /\ inChannel = << >>
    /\ log = << >>
    /\ phase = "Init"
    /\ ret = 0
    /\ held = {}
    /\ prompts = 0
    /\ ub = {}
    /\ lastError = "FREERDP_ERROR_SUCCESS"
    /\ lastAck = Ack(0, 0, 0, 0, 0)
    /\ reads = 0
    /\ op = Op("none", "none", "none", rpc, settings)

SendBind ==
    /\ phase = "Init"
    /\ \E in \in BindInputs :
          LET r == rpc_send_bind_pdu(State, in)
          IN  /\ Apply(r)
              /\ phase' = AfterBind(r)
              /\ op' = Op("bind", r.fault,
                          IF r.prompts = 0 THEN "none"
                          ELSE IF in.proceed THEN "Proceed" ELSE "Cancel",
                          rpc, settings)
    /\ UNCHANGED <<lastAck, reads>>

RecvBindAck ==
    /\ phase = "AwaitingBindAck"
    /\ \E ack \in AckPdus, in \in AckInputs :
          LET r == rpc_recv_bind_ack_pdu(State, ack, in)
          IN  /\ Apply(r)
              /\ phase' = AfterBindAck(r)
              /\ lastAck' = ack
              /\ op' = Op("ack", r.fault, "none", rpc, settings)
    /\ reads' = reads + 1

SendAuth3 ==
    /\ phase = "Auth3Send"
    /\ \E in \in Auth3Inputs :
          LET r == rpc_send_rpc_auth_3_pdu(State, in)
          IN  /\ Apply(r)
              /\ phase' = AfterAuth3(r)
              /\ op' = Op("auth3", r.fault, "none", rpc, settings)
    /\ UNCHANGED <<lastAck, reads>>

Next == SendBind \/ RecvBindAck \/ SendAuth3

Spec == Init /\ [][Next]_vars

----------------------------------------------------------------------------
(* Properties *)

SendEvents(by) == {i \in DOMAIN log : log[i].ev = "send" /\ log[i].op = by}

AckEvents == {i \in DOMAIN log : log[i].ev = "ack"}

PrefixOf(pdu) == IF pdu.ptype = PTYPE_BIND THEN BIND_PREFIX ELSE AUTH3_PREFIX

ShortWrite(i) == inChannel[i].status < inChannel[i].pdu.length

MalformedAck(ack) ==
    ack.auth_length > ack.frag_length - 24 \/ ack.frag_length > ack.length

\* Nothing else went wrong so far: every frame sent fits its 16-bit frag_length
\* and was accepted whole, and the BIND_ACK received, if any, was well formed.
CleanRun ==
    /\ \A i \in DOMAIN inChannel :
          /\ ~ShortWrite(i)
          /\ ~WritesPastBuffer(EndOffset(PrefixOf(inChannel[i].pdu),
                                         inChannel[i].pdu.auth_length),
                               inChannel[i].pdu.frag_length)
    /\ reads > 0 => (HeaderInBuffer(lastAck) /\ ~MalformedAck(lastAck))

\* The last operation is a send operation whose call could not be created or added.
CallNotRegistered == op.name \in {"bind", "auth3"} /\ op.fault \in {"call_new", "list_add"}

\* C1: in rpc_send_bind_pdu and rpc_send_rpc_auth_3_pdu the call with the PDU's
\* call_id is added to the registry before the PDU is handed to the in channel,
\* and when the call cannot be created or added nothing is handed to the channel
\* and the operation reports failure.  (Stated for runs in which nothing else
\* went wrong.)
C1_RegisteredBeforeSend ==
  CleanRun =>
    /\ \A i \in DOMAIN log :
          log[i].ev = "send" =>
             /\ i > 1
             /\ log[i - 1].ev = "add"
             /\ log[i - 1].op = log[i].op
             /\ log[i - 1].call_id = log[i].call_id
    /\ CallNotRegistered => (SendEvents(op.name) = {} /\ ret = -1)

\* C2: the BIND is sent before a BIND_ACK is processed, and a BIND_ACK is
\* processed before an RPC_AUTH_3 is sent.
C2_HandshakeOrder ==
    /\ \A i \in AckEvents : \E j \in SendEvents("bind") : j < i
    /\ \A i \in SendEvents("auth3") : \E j \in AckEvents : j < i
    /\ phase \in {"Auth3Send", "Established"} => (AckEvents # {} /\ rpc.ntlm.fed > 0)

C2_Witness ==
    /\ phase = "Established"
    /\ SendEvents("bind") # {} /\ AckEvents # {} /\ SendEvents("auth3") # {}

\* C3: after a BIND_ACK reporting (max_xmit_frag = X, max_recv_frag = R) the
\* session's max_recv_frag is X and its max_xmit_frag is R.
C3_FragSizesSwapped ==
    (reads > 0 /\ HeaderInBuffer(lastAck)) =>
        (rpc.max_recv_frag = lastAck.max_xmit_frag /\ rpc.max_xmit_frag = lastAck.max_recv_frag)

C3_Witness ==
    /\ op.name = "ack" /\ ret > 0 /\ HeaderInBuffer(lastAck)
    /\ lastAck.max_xmit_frag = 1024 /\ lastAck.max_recv_frag = 5840
    /\ rpc.max_recv_frag = 1024 /\ rpc.max_xmit_frag = 5840

\* C4: the buffer handed to the channel is frag_length bytes long, frag_length is
\* prefix + auth_pad_length + 8 + auth_length (prefix 116 for the BIND, 20 for
\* the RPC_AUTH_3), and auth_length token bytes follow the trailer head.
C4_FrameLengths ==
    \A i \in DOMAIN inChannel :
        LET pdu == inChannel[i].pdu
        IN  /\ pdu.length = pdu.frag_length
            /\ pdu.frag_length =
                  PrefixOf(pdu) + pdu.auth_pad_length + AUTH_TRAILER + pdu.auth_length
            /\ pdu.auth_length = pdu.token_bytes

\* C5: a frame whose prefix + pad + 8 + auth_length exceeds 65535 is rejected:
\* nothing of it is sent and no byte is written past the end of the buffer.
C5_OversizeRejected ==
    /\ "write_past_buffer" \notin ub
    /\ \A i \in DOMAIN inChannel :
          LET pdu == inChannel[i].pdu
          IN  PrefixOf(pdu) + pdu.auth_pad_length + AUTH_TRAILER + pdu.auth_length < U16

\* C6: a BIND_ACK with auth_length > frag_length - 24 or frag_length > the
\* buffer length makes rpc_recv_bind_ack_pdu fail, with the fragment sizes as
\* they were, no token fed to the oracle and no read outside the buffer, and no
\* RPC_AUTH_3 is sent afterwards.  (Stated for runs whose BIND was sent whole.)
C6_MalformedAckRejected ==
    (reads > 0 /\ MalformedAck(lastAck) /\ ~ShortWrite(1)) =>
        /\ op.name = "ack" =>
              /\ ret < 0
              /\ rpc.max_xmit_frag = op.max_xmit_frag
              /\ rpc.max_recv_frag = op.max_recv_frag
              /\ ub = {}
        /\ rpc.ntlm.fed = 0
        /\ phase \notin {"Auth3Send", "Established"}
        /\ SendEvents("auth3") = {}

ClientInitEvents == {i \in DOMAIN log : log[i].ev = "client_init"}

PromptEvents == {i \in DOMAIN log : log[i].ev = "prompt"}

\* C7: when the prompt answers Cancel, rpc_send_bind_pdu returns the cancelled
\* outcome (0, neither 1 nor -1); the oracle is not initialized with credentials,
\* no call is added and nothing is sent on or read from a channel.
C7_CancelledPrompt ==
    (op.name = "bind" /\ op.answer = "Cancel") =>
        /\ ret = 0
        /\ phase = "Cancelled"
        /\ lastError = "FREERDP_ERROR_CONNECT_CANCELLED"
        /\ rpc.ntlm.state = "new"
        /\ ClientInitEvents = {}
        /\ ClientCallList = << >>
        /\ inChannel = << >>
        /\ reads = 0

C7_Witness ==
    /\ op.name = "bind" /\ op.answer = "Cancel"
    /\ op.GatewayPassword = NULL
    /\ phase = "Cancelled"

\* The gateway user name or password was missing or empty when the bind started.
CredentialsMissing ==
    op.GatewayUsername \in {NULL, ""} \/ op.GatewayPassword \in {NULL, ""}

\* C8 as stated: with a missing or empty gateway user name or password the
\* prompt is invoked exactly once, before the oracle is initialized; otherwise
\* it is not invoked.
C8_PromptExactlyOnce ==
    op.name = "bind" =>
        /\ prompts = IF CredentialsMissing THEN 1 ELSE 0
        /\ Cardinality(PromptEvents) = prompts
        /\ \A i \in ClientInitEvents : \A j \in PromptEvents : j < i

\* C8 amended: the prompt is invoked exactly once when the user name or password
\* is missing or empty, a GatewayAuthenticate callback is registered and the oracle
\* context could be allocated; in every other case it is not invoked.  An
\* invocation precedes the initialization of the oracle.
C8_PromptOnceWhenRegistered ==
    op.name = "bind" =>
        /\ prompts = IF CredentialsMissing /\ hasAuthCb /\ op.fault # "ntlm_new"
                     THEN 1 ELSE 0
        /\ Cardinality(PromptEvents) = prompts
        /\ \A i \in ClientInitEvents : \A j \in PromptEvents : j < i

C8_Witness ==
    /\ op.name = "bind" /\ CredentialsMissing /\ hasAuthCb
    /\ prompts = 1
    /\ ClientInitEvents # {}
    /\ ret = 1

\* C9: a send that accepts fewer bytes than the PDU holds makes the operation
\* report failure, and after a failed BIND send no BIND_ACK is read.
C9_ShortWriteFails ==
    /\ (op.name = "bind" /\ Len(inChannel) = 1 /\ ShortWrite(1)) => ret = -1
    /\ (op.name = "auth3" /\ Len(inChannel) = 2 /\ ShortWrite(2)) => ret = -1
    /\ (Len(inChannel) >= 1 /\ ShortWrite(1)) => reads = 0

OracleContinues == AckEvents # {} => rpc.ntlm.status = "Continue"

\* The registry entries that are calls with the given call id.
CallsWithId(id) ==
    {i \in DOMAIN ClientCallList :
        ~ClientCallList[i].isNull /\ ClientCallList[i].CallId = id}

\* C11: the registry holds at most one call per call_id; an add of a call_id
\* already present is refused, so the RPC_AUTH_3 whose call_id 2 the BIND has
\* registered fails and the registry never holds two calls with call_id 2.
\* (Stated for runs in which nothing else went wrong.)
C11_UniqueCallId ==
  (CleanRun /\ OracleContinues) =>
    /\ \A i, j \in DOMAIN ClientCallList :
          (/\ ~ClientCallList[i].isNull /\ ~ClientCallList[j].isNull
           /\ ClientCallList[i].CallId = ClientCallList[j].CallId) => i = j
    /\ (op.name = "auth3" /\ CallsWithId(AUTH3_CALL_ID) # {}) => ret = -1

\* The frames the channel accepted.
AcceptedFrames == {i \in DOMAIN inChannel : inChannel[i].status > 0}

\* C12 as stated: the registry holds as many calls as PDUs were actually sent on
\* the in channel; a send the channel refuses leaves no registered call behind.
C12_RegistryCountsSent ==
    Len(ClientCallList) = Cardinality(AcceptedFrames)

\* C12 amended: the registry holds as many entries as PDUs were handed to the in
\* channel, accepted or not; a send the channel refuses leaves its call
\* registered.
C12_RegistryCountsHanded ==
    /\ Len(ClientCallList) = Len(inChannel)
    /\ \A i \in DOMAIN inChannel :
          ClientCallList[i].isNull \/ ClientCallList[i].CallId = inChannel[i].pdu.call_id

C12_Witness ==
    /\ op.name = "bind" /\ ret = -1
    /\ Len(inChannel) = 1 /\ inChannel[1].status <= 0
    /\ Len(ClientCallList) = 1 /\ ClientCallList[1].CallId = BIND_CALL_ID

\* C13: once a BIND_ACK has been processed, no frame handed to the in channel is
\* longer than the session's max_xmit_frag (the max_recv_frag the server
\* reported); an RPC_AUTH_3 that would be longer is not sent.  (Stated for runs
\* in which nothing else went wrong.)
C13_FragWithinNegotiated ==
  (CleanRun /\ OracleContinues) =>
    \A i \in DOMAIN inChannel :
        inChannel[i].pdu.ptype = PTYPE_RPC_AUTH_3 =>
            inChannel[i].pdu.frag_length <= rpc.max_xmit_frag

\* The frames of the given type that the in channel accepted whole.
SentFrames(ptype) ==
    {i \in DOMAIN inChannel :
        /\ inChannel[i].pdu.ptype = ptype
        /\ inChannel[i].status > 0 /\ ~ShortWrite(i)}

\* C14: every BIND frame sent declares n_context_elem = 2 and carries, in bytes
\* 28..115, exactly two presentation contexts in this order: p_cont_id 0 with
\* abstract syntax TSGU and the one transfer syntax NDR, then p_cont_id 1 with
\* abstract syntax TSGU and the one transfer syntax BTFN.
C14_BindContexts ==
    \A i \in SentFrames(PTYPE_BIND) :
        LET pdu == inChannel[i].pdu
        IN  /\ pdu.n_context_elem = 2
            /\ pdu.contexts =
                  << [p_cont_id |-> 0, n_transfer_syn |-> 1, abstract_syntax |-> "TSGU",
                      transfer_syntaxes |-> <<"NDR">>],
                     [p_cont_id |-> 1, n_transfer_syn |-> 1, abstract_syntax |-> "TSGU",
                      transfer_syntaxes |-> <<"BTFN">>] >>
            /\ FrameCarries(pdu, BIND_PREFIX)

\* C15: a failure during a handshake step makes the step report failure and
\* ends the handshake; in particular, when the oracle reports an error on the
\* BIND_ACK token, rpc_recv_bind_ack_pdu reports failure and no RPC_AUTH_3 is
\* sent afterwards.  (Stated for runs in which nothing else went wrong.)
C15_FailureIsTerminal ==
  CleanRun =>
    /\ (op.name = "ack" /\ AckEvents # {} /\ rpc.ntlm.status = "Error") => ret < 0
    /\ (AckEvents # {} /\ rpc.ntlm.status = "Error") =>
          /\ phase \notin {"Auth3Send", "Established"}
          /\ SendEvents("auth3") = {}
    /\ (op.name # "none" /\ ret < 0 /\ ub = {}) => phase = "Failed"

\* What a send operation allocates for its PDU.
PduAllocs == BindPduAllocs \cup {"auth_3_pdu", "buffer"}

\* C16: when rpc_send_bind_pdu or rpc_send_rpc_auth_3_pdu returns, on any exit
\* path, the PDU record, its context array, both transfer-syntax lists and the
\* outbound buffer have been released.
C16_AllReleased ==
    (op.name \in {"bind", "auth3"} /\ phase # "Crashed") => held \cap PduAllocs = {}

\* C17: when the prompt answers Proceed and GatewayUseSameCredentials is set, the
\* session Username, Domain and Password are copied from the gateway ones as one
\* group: the bind fails at this step only if one of the three copies failed,
\* and goes on to initialize the oracle when all three succeeded.
C17_CredentialsCopiedAsGroup ==
    (op.name = "bind" /\ op.answer = "Proceed" /\ settings.GatewayUseSameCredentials) =>
        /\ op.fault = "credentials" =>
              NULL \in {settings.Username, settings.Domain, settings.Password}
        /\ NULL \notin {settings.Username, settings.Domain, settings.Password} =>
              (ClientInitEvents # {} \/ op.fault = "client_init")

\* C18: registering the call of the RPC_AUTH_3 is idempotent: with call_id 2 in
\* the registry from the BIND, the registration succeeds without adding a second
\* entry, the RPC_AUTH_3 is sent with call_id 2, and the handshake reaches
\* Established with both frames sent under call_id 2.  (Stated for runs in
\* which nothing else went wrong.)
C18_Auth3RegistrationIdempotent ==
  (/\ CleanRun /\ OracleContinues
   /\ op.name = "auth3" /\ op.fault = "none" /\ phase # "Crashed") =>
    /\ Len(ClientCallList) = 1
    /\ Cardinality(CallsWithId(AUTH3_CALL_ID)) = 1
    /\ Len(inChannel) = 2
    /\ \A i \in DOMAIN inChannel : inChannel[i].pdu.call_id = 2
    /\ inChannel[2].status > 0 => phase = "Established"

\* The fragment sizes are the last fields of the 20-byte fixed part of an
\* RPC_AUTH_3 and lie in the same bytes, 16..19, of a BIND.
FragSizesEnd == AUTH3_PREFIX

\* C19: max_xmit_frag and max_recv_frag of the session are changed only by
\* rpc_recv_bind_ack_pdu: the two send operations leave them as they were, the
\* BIND frame carries the values from before the negotiation and an RPC_AUTH_3
\* sent after a BIND_ACK carries the swapped values of that BIND_ACK.
C19_FragSizesFrame ==
    /\ op.name \in {"bind", "auth3"} =>
          (rpc.max_xmit_frag = op.max_xmit_frag /\ rpc.max_recv_frag = op.max_recv_frag)
    /\ \A i \in SentFrames(PTYPE_BIND) :
          /\ inChannel[i].pdu.max_xmit_frag \in InitFrags
          /\ inChannel[i].pdu.max_recv_frag \in InitFrags
          /\ FrameCarries(inChannel[i].pdu, FragSizesEnd)
    /\ \A i \in SentFrames(PTYPE_RPC_AUTH_3) :
          /\ HeaderInBuffer(lastAck) =>
                /\ inChannel[i].pdu.max_xmit_frag = lastAck.max_recv_frag
                /\ inChannel[i].pdu.max_recv_frag = lastAck.max_xmit_frag
          /\ FrameCarries(inChannel[i].pdu, FragSizesEnd)

\* The last operation is a send operation whose call could not be created.
CallNotCreated == op.name \in {"bind", "auth3"} /\ op.fault = "call_new"

\* C20: every entry of the registry is a call object that was created; when
\* rpc_client_call_new returns no object, the send operation adds nothing to the
\* registry and hands nothing to the in channel.
C20_OnlyCreatedCallsRegistered ==
    /\ \A i \in DOMAIN ClientCallList : ~ClientCallList[i].isNull
    /\ (CallNotCreated /\ op.name = "bind") =>
          (ClientCallList = << >> /\ inChannel = << >>)
    /\ (CallNotCreated /\ op.name = "auth3") =>
          (Len(ClientCallList) <= 1 /\ Len(inChannel) <= 1)

====
